---- MODULE Spec2Model ----
(***************************************************************************)
(* tensorpipe/util/ringbuffer/producer.h : the write side of the ring      *)
(* buffer.  Several Producer objects share one RingBufferHeader (head,     *)
(* tail, the in_write_tx flag) and one data pool; each Producer is driven  *)
(* by its own thread, and a consumer advances tail concurrently.  A step   *)
(* of the model is one access to the shared header or pool together with   *)
(* the thread-local code around it.                                        *)
(***************************************************************************)
EXTENDS Integers, Sequences, FiniteSets, TLC

\* ---------------------------------------------------------------- bounds
\* the Producer objects on the ring buffer
NumProducers == 2
\* the largest size a caller asks for (more than the pool holds)
MaxSize == 5
\* transactions are opened only while head + kDataPoolByteSize <= MaxHead,
\* which keeps the 64-bit counter head at or below MaxHead
MaxHead == 7

\* ------------------------------------------------------ program constants
\* the capacity of the data pool, a power of two
kDataPoolByteSize == 4
\* errno values
EBUSY == 16
EAGAIN == 11
EINVAL == 22
ENOSPC == 28

kDataModMask == kDataPoolByteSize - 1

Producers == 1..NumProducers
Bytes == {0, 1}

Min(a, b) == IF a < b THEN a ELSE b

\* a & b on naturals, bit by bit
RECURSIVE BitAnd(_, _)
BitAnd(a, b) ==
    IF a = 0 \/ b = 0 THEN 0
    ELSE ((a % 2) * (b % 2)) + 2 * BitAnd(a \div 2, b \div 2)

\* the caller's buffer for a copy of n bytes: bytes alternate from seed b
BufOf(b, n) == [i \in 1..n |-> (b + i - 1) % 2]

VARIABLES
    head,          \* RingBufferHeader: bytes published so far
    tail,          \* RingBufferHeader: bytes consumed so far
    in_write_tx,   \* RingBufferHeader: the write-transaction flag
    data,          \* the data pool, offset -> byte
    inTx_,         \* Producer::inTx_, per producer
    tx_size_,      \* Producer::tx_size_, per producer
    pc,            \* where each producer's thread stands in its current call
    loc,           \* the current call's arguments and locals, per producer
    last,          \* the call that returned in the last step, if one did
    owner,         \* history: p while p's beginWriteTransaction holds the flag,
                   \* -p once p has released it
    log,           \* history: the committed, unconsumed bytes, oldest first
    staged,        \* history: the bytes each open transaction has put in its spans
    misuse         \* history: endWriteTransaction ran without the caller holding the flag

vars == <<head, tail, in_write_tx, data, inTx_, tx_size_, pc, loc, last,
          owner, log, staged, misuse>>

header == <<head, tail, in_write_tx>>
hist == <<owner, log, staged, misuse>>

NoLoc == [op |-> "none", size |-> 0, partial |-> FALSE, h |-> 0, ret |-> 0,
          spans |-> <<>>, head0 |-> 0]

\* the locals of a call of op that starts now.  An argument is drawn in the
\* step that first reads it; head0 remembers head at the call (history).
Call(op) == [NoLoc EXCEPT !.op = op, !.head0 = head]

NoCall == [p |-> 0, op |-> "none", ret |-> 0, spans |-> <<>>, delta |-> 0,
           prev |-> 0, size |-> 0, partial |-> FALSE]

Init ==
    /\ head = 0
    /\ tail = 0
    /\ in_write_tx = FALSE
    /\ data = [i \in 0..(kDataPoolByteSize - 1) |-> 0]
    /\ inTx_ = [p \in Producers |-> FALSE]
    /\ tx_size_ = [p \in Producers |-> 0]
    /\ pc = [p \in Producers |-> "ready"]
    /\ loc = [p \in Producers |-> NoLoc]
    /\ last = NoCall
    /\ owner = 0
    /\ log = <<>>
    /\ staged = [p \in Producers |-> <<>>]
    /\ misuse = FALSE

\* ------------------------------------------------- control of the threads
\* the call of producer p goes on at label with locals l
Goto(p, label, l) ==
    /\ pc' = [pc EXCEPT ![p] = label]
    /\ loc' = [loc EXCEPT ![p] = l]
    /\ last' = NoCall

\* the call op of producer p, with locals l, returns r (and spans sp)
Return(p, op, r, sp, l) ==
    /\ pc' = [pc EXCEPT ![p] = "ready"]
    /\ loc' = [loc EXCEPT ![p] = NoLoc]
    /\ last' = [p |-> p, op |-> op, ret |-> r, spans |-> sp,
                delta |-> head - l.head0,
                prev |-> IF op = "startTx" /\ r = 0 THEN -owner ELSE 0,
                size |-> l.size, partial |-> l.partial]

\* ------------------------------------------------------ RingBufferHeader
\* beginWriteTransaction(): test-and-set of the flag; true when it was set
beginWriteTransaction(p) ==
    /\ in_write_tx' = TRUE
    /\ owner' = IF in_write_tx THEN owner ELSE p

\* endWriteTransaction(): clears the flag
endWriteTransaction(p) ==
    /\ in_write_tx' = FALSE
    /\ owner' = -p
    /\ misuse' = (misuse \/ ~in_write_tx \/ owner # p)

\* incHead(n)
incHead(n) == head' = head + n

\* -------------------------------------------------------------- startTx
\* startTx() without the test of inTx()
startTxRet_noBusy(p) == IF in_write_tx THEN -EAGAIN ELSE 0

\* the value startTx() returns from the current state
startTxRet(p) ==
    IF inTx_[p] THEN -EBUSY
    ELSE IF in_write_tx THEN -EAGAIN
    ELSE 0

\* startTx() that ignores what beginWriteTransaction() returns
startTxBody_ignoresFlag(p) ==
    IF inTx_[p]
    THEN UNCHANGED <<in_write_tx, owner, inTx_>>
    ELSE /\ beginWriteTransaction(p)
         /\ inTx_' = [inTx_ EXCEPT ![p] = TRUE]

\* what startTx() does to the producer and the header (TP_DCHECK_EQ is a
\* debug-build test and has no effect)
startTxBody(p) ==
    IF inTx_[p]
    THEN UNCHANGED <<in_write_tx, owner, inTx_>>
    ELSE /\ beginWriteTransaction(p)
         /\ inTx_' = IF in_write_tx THEN inTx_ ELSE [inTx_ EXCEPT ![p] = TRUE]

startTx(p) ==
    /\ pc[p] = "ready"
    /\ head + kDataPoolByteSize <= MaxHead
    /\ startTxBody(p)
    /\ Return(p, "startTx", startTxRet(p), <<>>, Call("startTx"))
    /\ UNCHANGED <<head, tail, data, tx_size_, log, staged, misuse>>

\* ------------------------------------------------------------- cancelTx
cancelTxRet(p) == IF ~inTx_[p] THEN -EINVAL ELSE 0

\* cancelTx() that forgets endWriteTransaction()
cancelTxBody_keepsFlag(p) ==
    IF ~inTx_[p]
    THEN UNCHANGED <<in_write_tx, owner, misuse, inTx_, tx_size_, staged>>
    ELSE /\ tx_size_' = [tx_size_ EXCEPT ![p] = 0]
         /\ inTx_' = [inTx_ EXCEPT ![p] = FALSE]
         /\ staged' = [staged EXCEPT ![p] = <<>>]
         /\ UNCHANGED <<in_write_tx, owner, misuse>>

\* cancelTx() without the test of inTx()
cancelTxBody_noCheck(p) ==
    /\ tx_size_' = [tx_size_ EXCEPT ![p] = 0]
    /\ inTx_' = [inTx_ EXCEPT ![p] = FALSE]
    /\ staged' = [staged EXCEPT ![p] = <<>>]
    /\ endWriteTransaction(p)

\* cancelTx() that leaves tx_size_ as it is
cancelTxBody_keepsTxSize(p) ==
    IF ~inTx_[p]
    THEN UNCHANGED <<in_write_tx, owner, misuse, inTx_, tx_size_, staged>>
    ELSE /\ inTx_' = [inTx_ EXCEPT ![p] = FALSE]
         /\ staged' = [staged EXCEPT ![p] = <<>>]
         /\ endWriteTransaction(p)
         /\ UNCHANGED tx_size_

cancelTxBody(p) ==
    IF ~inTx_[p]
    THEN UNCHANGED <<in_write_tx, owner, misuse, inTx_, tx_size_, staged>>
    ELSE /\ tx_size_' = [tx_size_ EXCEPT ![p] = 0]
         /\ inTx_' = [inTx_ EXCEPT ![p] = FALSE]
         /\ staged' = [staged EXCEPT ![p] = <<>>]
         /\ endWriteTransaction(p)

\* cancelTx() that publishes like commitTx()
cancelTx_incHead(p) ==
    /\ pc[p] = "ready"
    /\ cancelTxBody(p)
    /\ incHead(tx_size_[p])
    /\ log' = log \o staged[p]
    /\ Return(p, "cancelTx", cancelTxRet(p), <<>>, Call("cancelTx"))
    /\ UNCHANGED <<tail, data>>

cancelTx(p) ==
    /\ pc[p] = "ready"
    /\ cancelTxBody(p)
    /\ Return(p, "cancelTx", cancelTxRet(p), <<>>, Call("cancelTx"))
    /\ UNCHANGED <<head, tail, data, log>>

\* ------------------------------------------------------------- commitTx
commitTxRet(p) == IF ~inTx_[p] THEN -EINVAL ELSE 0

\* the call up to and including incHead(tx_size_); l are the caller's locals
commitTxBody(p, l) ==
    IF ~inTx_[p]
    THEN /\ UNCHANGED <<head, log>>
         /\ Return(p, l.op, IF l.op = "write" THEN l.size ELSE -EINVAL, <<>>, l)
    ELSE /\ incHead(tx_size_[p])
         /\ log' = log \o staged[p]
         /\ Goto(p, "commit_clear", l)

\* commitTx() that releases the flag where it should advance head
commitTx_releasesFirst(p) ==
    /\ pc[p] = "ready"
    /\ IF ~inTx_[p]
       THEN /\ Return(p, "commitTx", -EINVAL, <<>>, Call("commitTx"))
            /\ UNCHANGED <<in_write_tx, owner, misuse>>
       ELSE /\ endWriteTransaction(p)
            /\ Goto(p, "commit_clear", Call("commitTx"))
    /\ UNCHANGED <<head, tail, data, inTx_, tx_size_, log, staged>>

commitTx(p) ==
    /\ pc[p] = "ready"
    /\ commitTxBody(p, Call("commitTx"))
    /\ UNCHANGED <<tail, in_write_tx, data, inTx_, tx_size_, owner, staged, misuse>>

\* tx_size_ = 0; inTx_ = false;
commitTx_clear(p) ==
    /\ pc[p] = "commit_clear"
    /\ tx_size_' = [tx_size_ EXCEPT ![p] = 0]
    /\ inTx_' = [inTx_ EXCEPT ![p] = FALSE]
    /\ staged' = [staged EXCEPT ![p] = <<>>]
    /\ Goto(p, "commit_end", loc[p])
    /\ UNCHANGED <<head, tail, in_write_tx, data, owner, log, misuse>>

\* commitTx() that returns without endWriteTransaction()
commitTx_end_keepsFlag(p) ==
    /\ pc[p] = "commit_end"
    /\ Return(p, loc[p].op, IF loc[p].op = "write" THEN loc[p].size ELSE 0,
              <<>>, loc[p])
    /\ UNCHANGED <<head, tail, in_write_tx, data, inTx_, tx_size_, hist>>

\* header_.endWriteTransaction(); return 0;  (write() then returns size)
commitTx_end(p) ==
    /\ pc[p] = "commit_end"
    /\ endWriteTransaction(p)
    /\ Return(p, loc[p].op, IF loc[p].op = "write" THEN loc[p].size ELSE 0,
              <<>>, loc[p])
    /\ UNCHANGED <<head, tail, data, inTx_, tx_size_, log, staged>>

\* ------------------------------------------------- accessContiguousInTx
\* the bytes of pool d under the spans sp, in order
RECURSIVE SpanBytes(_, _)
SpanBytes(d, sp) ==
    IF sp = <<>> THEN <<>>
    ELSE [i \in 1..Head(sp).len |->
             d[(Head(sp).off + i - 1) % kDataPoolByteSize]]
         \o SpanBytes(d, Tail(sp))

\* avail computed without tx_size_
accessResult_noTxSize(h, t, tx, size, partial) ==
    LET raw == kDataPoolByteSize - (h - t)
        none == [n |-> 0, spans |-> <<>>, tx |-> tx]
    IN  IF ~partial /\ raw < size THEN [none EXCEPT !.n = -ENOSPC]
        ELSE IF raw = 0 THEN none
        ELSE LET sz == Min(size, raw)
                 start == BitAnd(h + tx, kDataModMask)
                 end == BitAnd(start + sz, kDataModMask)
                 wrap == start >= end /\ end > 0
             IN  IF ~wrap
                 THEN [n |-> 1,
                       spans |-> <<[off |-> start, len |-> sz]>>,
                       tx |-> tx + sz]
                 ELSE [n |-> 2,
                       spans |-> <<[off |-> start, len |-> kDataPoolByteSize - start],
                                   [off |-> 0, len |-> end]>>,
                       tx |-> tx + sz]

\* size not cut down to avail
accessResult_noMin(h, t, tx, size, partial) ==
    LET raw == kDataPoolByteSize - (h - t) - tx
        none == [n |-> 0, spans |-> <<>>, tx |-> tx]
    IN  IF ~partial /\ raw < size THEN [none EXCEPT !.n = -ENOSPC]
        ELSE IF raw = 0 THEN none
        ELSE LET sz == size
                 start == BitAnd(h + tx, kDataModMask)
                 end == BitAnd(start + sz, kDataModMask)
                 wrap == start >= end /\ end > 0
             IN  IF ~wrap
                 THEN [n |-> 1,
                       spans |-> <<[off |-> start, len |-> sz]>>,
                       tx |-> tx + sz]
                 ELSE [n |-> 2,
                       spans |-> <<[off |-> start, len |-> kDataPoolByteSize - start],
                                   [off |-> 0, len |-> end]>>,
                       tx |-> tx + sz]

\* tx_size_ += size done before the test of avail
accessResult_reservesFirst(h, t, tx, size, partial) ==
    LET raw == kDataPoolByteSize - (h - t) - tx
        none == [n |-> 0, spans |-> <<>>, tx |-> tx]
    IN  IF ~partial /\ raw < size
        THEN [none EXCEPT !.n = -ENOSPC, !.tx = tx + size]
        ELSE IF raw = 0 THEN none
        ELSE LET sz == Min(size, raw)
                 start == BitAnd(h + tx, kDataModMask)
                 end == BitAnd(start + sz, kDataModMask)
                 wrap == start >= end /\ end > 0
             IN  IF ~wrap
                 THEN [n |-> 1,
                       spans |-> <<[off |-> start, len |-> sz]>>,
                       tx |-> tx + sz]
                 ELSE [n |-> 2,
                       spans |-> <<[off |-> start, len |-> kDataPoolByteSize - start],
                                   [off |-> 0, len |-> end]>>,
                       tx |-> tx + sz]

\* the allowPartial = false instantiation used for every request
accessResult_strictOnly(h, t, tx, size, partial) ==
    LET raw == kDataPoolByteSize - (h - t) - tx
        none == [n |-> 0, spans |-> <<>>, tx |-> tx]
    IN  IF raw < size THEN [none EXCEPT !.n = -ENOSPC]
        ELSE IF raw = 0 THEN none
        ELSE LET start == BitAnd(h + tx, kDataModMask)
                 end == BitAnd(start + size, kDataModMask)
                 wrap == start >= end /\ end > 0
             IN  IF ~wrap
                 THEN [n |-> 1,
                       spans |-> <<[off |-> start, len |-> size]>>,
                       tx |-> tx + size]
                 ELSE [n |-> 2,
                       spans |-> <<[off |-> start, len |-> kDataPoolByteSize - start],
                                   [off |-> 0, len |-> end]>>,
                       tx |-> tx + size]

\* wrap computed as start >= end, without the test end > 0
accessResult_wrapAtEnd(h, t, tx, size, partial) ==
    LET raw == kDataPoolByteSize - (h - t) - tx
        none == [n |-> 0, spans |-> <<>>, tx |-> tx]
    IN  IF ~partial /\ raw < size THEN [none EXCEPT !.n = -ENOSPC]
        ELSE IF raw = 0 THEN none
        ELSE LET sz == Min(size, raw)
                 start == BitAnd(h + tx, kDataModMask)
                 end == BitAnd(start + sz, kDataModMask)
                 wrap == start >= end
             IN  IF ~wrap
                 THEN [n |-> 1,
                       spans |-> <<[off |-> start, len |-> sz]>>,
                       tx |-> tx + sz]
                 ELSE [n |-> 2,
                       spans |-> <<[off |-> start, len |-> kDataPoolByteSize - start],
                                   [off |-> 0, len |-> end]>>,
                       tx |-> tx + sz]

\* avail computed as if the pool were empty: head - tail left out
accessResult_ignoresUnread(h, t, tx, size, partial) ==
    LET raw == kDataPoolByteSize - tx
        none == [n |-> 0, spans |-> <<>>, tx |-> tx]
    IN  IF ~partial /\ raw < size THEN [none EXCEPT !.n = -ENOSPC]
        ELSE IF raw = 0 THEN none
        ELSE LET sz == Min(size, raw)
                 start == BitAnd(h + tx, kDataModMask)
                 end == BitAnd(start + sz, kDataModMask)
                 wrap == start >= end /\ end > 0
             IN  IF ~wrap
                 THEN [n |-> 1,
                       spans |-> <<[off |-> start, len |-> sz]>>,
                       tx |-> tx + sz]
                 ELSE [n |-> 2,
                       spans |-> <<[off |-> start, len |-> kDataPoolByteSize - start],
                                   [off |-> 0, len |-> end]>>,
                       tx |-> tx + sz]

\* start computed from head alone: every request starts where the first did
accessResult_startAtHead(h, t, tx, size, partial) ==
    LET raw == kDataPoolByteSize - (h - t) - tx
        none == [n |-> 0, spans |-> <<>>, tx |-> tx]
    IN  IF ~partial /\ raw < size THEN [none EXCEPT !.n = -ENOSPC]
        ELSE IF raw = 0 THEN none
        ELSE LET sz == Min(size, raw)
                 start == BitAnd(h, kDataModMask)
                 end == BitAnd(start + sz, kDataModMask)
                 wrap == start >= end /\ end > 0
             IN  IF ~wrap
                 THEN [n |-> 1,
                       spans |-> <<[off |-> start, len |-> sz]>>,
                       tx |-> tx + sz]
                 ELSE [n |-> 2,
                       spans |-> <<[off |-> start, len |-> kDataPoolByteSize - start],
                                   [off |-> 0, len |-> end]>>,
                       tx |-> tx + sz]

\* lines 115-147 on head h, tail t, tx_size_ tx: the number of spans or the
\* error, the spans, and the new tx_size_.  avail is a size_t: a negative
\* difference is a huge value, which is neither below size nor zero.
accessResult(h, t, tx, size, partial) ==
    LET raw == kDataPoolByteSize - (h - t) - tx
        huge == raw < 0
        none == [n |-> 0, spans |-> <<>>, tx |-> tx]
    IN  IF ~partial /\ ~huge /\ raw < size THEN [none EXCEPT !.n = -ENOSPC]
        ELSE IF raw = 0 THEN none
        ELSE LET sz == IF huge THEN size ELSE Min(size, raw)
                 start == BitAnd(h + tx, kDataModMask)
                 end == BitAnd(start + sz, kDataModMask)
                 wrap == start >= end /\ end > 0
             IN  IF ~wrap
                 THEN [n |-> 1,
                       spans |-> <<[off |-> start, len |-> sz]>>,
                       tx |-> tx + sz]
                 ELSE [n |-> 2,
                       spans |-> <<[off |-> start, len |-> kDataPoolByteSize - start],
                                   [off |-> 0, len |-> end]>>,
                       tx |-> tx + sz]

\* writeInTx() hands r to its caller: write() goes on, anyone else gets r
writeInTxReturns(p, r, l) ==
    IF l.op = "write"
    THEN IF r < 0
         THEN Goto(p, "w_cancel", [l EXCEPT !.ret = r])
         ELSE Goto(p, "w_commit", [l EXCEPT !.ret = r])
    ELSE Return(p, "writeInTx", r, <<>>, l)

\* accessContiguousInTx() hands res to its caller
accessReturns(p, res, l) ==
    IF l.op = "accessContiguousInTx"
    THEN Return(p, "accessContiguousInTx", res.n, res.spans, l)
    ELSE IF res.n <= 0
         THEN writeInTxReturns(p, res.n, l)
         ELSE Goto(p, "copy", [l EXCEPT !.spans = res.spans])

\* lines 107-115, the call up to and including readHead(); zero tells
\* whether the size asked for is 0, l are the caller's locals
accessBody(p, zero, l) ==
    IF ~inTx_[p]
    THEN accessReturns(p, [n |-> -EINVAL, spans |-> <<>>, tx |-> tx_size_[p]], l)
    ELSE IF zero
         THEN accessReturns(p, [n |-> 0, spans |-> <<>>, tx |-> tx_size_[p]], l)
         ELSE Goto(p, "acc_tail", [l EXCEPT !.h = head])

accessContiguousInTx(p, zero) ==
    /\ pc[p] = "ready"
    /\ accessBody(p, zero, Call("accessContiguousInTx"))
    /\ UNCHANGED <<head, tail, in_write_tx, data, inTx_, tx_size_, hist>>

writeInTx(p, zero) ==
    /\ pc[p] = "ready"
    /\ accessBody(p, zero, Call("writeInTx"))
    /\ UNCHANGED <<head, tail, in_write_tx, data, inTx_, tx_size_, hist>>

\* write() asking for a partial copy
writeAllowPartial_true == TRUE

\* the allowPartial that write() gives writeInTx()
writeAllowPartial == FALSE

\* lines 116-147: readTail() and the rest of accessContiguousInTx(), for a
\* size > 0; write() asks with allowPartial = false and keeps its size
access_readTail(p, size, partial) ==
    /\ pc[p] = "acc_tail"
    /\ loc[p].op = "write" => partial = writeAllowPartial
    /\ LET res == accessResult(loc[p].h, tail, tx_size_[p], size, partial)
           l == [loc[p] EXCEPT !.size = size, !.partial = partial]
       IN  /\ tx_size_' = [tx_size_ EXCEPT ![p] = res.tx]
           /\ staged' = IF l.op = "accessContiguousInTx"
                        THEN [staged EXCEPT ![p] = @ \o SpanBytes(data, res.spans)]
                        ELSE staged
           /\ accessReturns(p, res, l)
    /\ UNCHANGED <<head, tail, in_write_tx, data, inTx_, owner, log, misuse>>

\* memcpy(sp.ptr, buffer + from, sp.len) on pool d
memcpy(d, sp, buf, from) ==
    [j \in DOMAIN d |->
        IF sp.off <= j /\ j < sp.off + sp.len
        THEN buf[from + (j - sp.off) + 1]
        ELSE d[j]]

\* the second memcpy reads the buffer from its start again
writeInTxCopy_noOffset(d, spans, buf) ==
    IF Len(spans) = 1
    THEN [data |-> memcpy(d, spans[1], buf, 0), ret |-> spans[1].len]
    ELSE [data |-> memcpy(memcpy(d, spans[1], buf, 0), spans[2], buf, 0),
          ret |-> spans[1].len + spans[2].len]

\* lines 164-176: the pool after the copies, and the value returned
writeInTxCopy(d, spans, buf) ==
    IF Len(spans) = 1
    THEN [data |-> memcpy(d, spans[1], buf, 0), ret |-> spans[1].len]
    ELSE [data |-> memcpy(memcpy(d, spans[1], buf, 0), spans[2], buf, spans[1].len),
          ret |-> spans[1].len + spans[2].len]

\* the bytes the spans take of the caller's buffer, which starts with seed
writeInTx_copy(p, seed) ==
    /\ pc[p] = "copy"
    /\ LET l == loc[p]
           buf == BufOf(seed, kDataPoolByteSize)
           res == writeInTxCopy(data, l.spans, buf)
       IN  /\ data' = res.data
           /\ staged' = [staged EXCEPT ![p] = @ \o SubSeq(buf, 1, res.ret)]
           /\ writeInTxReturns(p, res.ret, [l EXCEPT !.spans = <<>>])
    /\ UNCHANGED <<head, tail, in_write_tx, inTx_, tx_size_, owner, log, misuse>>

\* ----------------------------------------------------------------- write
\* auto ret = startTx(); if (0 > ret) return ret;
write(p) ==
    /\ pc[p] = "ready"
    /\ head + kDataPoolByteSize <= MaxHead
    /\ startTxBody(p)
    /\ IF startTxRet(p) < 0
       THEN Return(p, "write", startTxRet(p), <<>>, Call("write"))
       ELSE Goto(p, "w_writeInTx", Call("write"))
    /\ UNCHANGED <<head, tail, data, tx_size_, log, staged, misuse>>

\* ret = writeInTx</*allowPartial=*/false>(buffer, size);
write_writeInTx(p, zero) ==
    /\ pc[p] = "w_writeInTx"
    /\ accessBody(p, zero, loc[p])
    /\ UNCHANGED <<head, tail, in_write_tx, data, inTx_, tx_size_, hist>>

\* write() that returns the error without cancelTx()
write_cancelTx_skipped(p) ==
    /\ pc[p] = "w_cancel"
    /\ Return(p, "write", loc[p].ret, <<>>, loc[p])
    /\ UNCHANGED <<head, tail, in_write_tx, data, inTx_, tx_size_, hist>>

\* if (0 > ret) { auto r = cancelTx(); return ret; }
write_cancelTx(p) ==
    /\ pc[p] = "w_cancel"
    /\ cancelTxBody(p)
    /\ Return(p, "write", loc[p].ret, <<>>, loc[p])
    /\ UNCHANGED <<head, tail, data, log>>

\* ret = commitTx(); return size;
write_commitTx(p) ==
    /\ pc[p] = "w_commit"
    /\ commitTxBody(p, loc[p])
    /\ UNCHANGED <<tail, in_write_tx, data, inTx_, tx_size_, owner, staged, misuse>>

\* ------------------------------------------------------------ ~Producer
\* a destructor that lets go of the flag instead of asserting
Producer_dtor_releases(p) ==
    /\ pc[p] = "ready"
    /\ pc' = [pc EXCEPT ![p] = "destroyed"]
    /\ IF inTx_[p]
       THEN /\ inTx_' = [inTx_ EXCEPT ![p] = FALSE]
            /\ endWriteTransaction(p)
       ELSE UNCHANGED <<inTx_, in_write_tx, owner, misuse>>
    /\ last' = [NoCall EXCEPT !.p = p, !.op = "~Producer"]
    /\ UNCHANGED <<head, tail, data, tx_size_, loc, log, staged>>

\* ~Producer() noexcept { TP_THROW_ASSERT_IF(inTx()); }: the assertion
\* throws out of a noexcept function, which ends the process of p; the
\* header and the pool are left as they are
Producer_dtor(p) ==
    /\ pc[p] = "ready"
    /\ IF inTx_[p]
       THEN /\ pc' = [pc EXCEPT ![p] = "aborted"]
            /\ last' = [NoCall EXCEPT !.p = p, !.op = "abort"]
       ELSE /\ pc' = [pc EXCEPT ![p] = "destroyed"]
            /\ last' = [NoCall EXCEPT !.p = p, !.op = "~Producer"]
    /\ UNCHANGED <<head, tail, in_write_tx, data, inTx_, tx_size_, loc, hist>>

\* ------------------------------------------------------------- consumer
\* the reader consumes n published bytes
Consume(n) ==
    /\ n <= head - tail
    /\ tail' = tail + n
    /\ log' = SubSeq(log, n + 1, Len(log))
    /\ last' = [NoCall EXCEPT !.op = "Consume"]
    /\ UNCHANGED <<head, in_write_tx, data, inTx_, tx_size_, pc, loc,
                   owner, staged, misuse>>

Next ==
    \/ \E p \in Producers : startTx(p)
    \/ \E p \in Producers : cancelTx(p)
    \/ \E p \in Producers : commitTx(p)
    \/ \E p \in Producers : commitTx_clear(p)
    \/ \E p \in Producers : commitTx_end(p)
    \/ \E p \in Producers, z \in BOOLEAN : accessContiguousInTx(p, z)
    \/ \E p \in Producers, z \in BOOLEAN : writeInTx(p, z)
    \/ \E p \in Producers, n \in 1..MaxSize, a \in BOOLEAN : access_readTail(p, n, a)
    \/ \E p \in Producers, b \in Bytes : writeInTx_copy(p, b)
    \/ \E p \in Producers : write(p)
    \/ \E p \in Producers, z \in BOOLEAN : write_writeInTx(p, z)
    \/ \E p \in Producers : write_cancelTx(p)
    \/ \E p \in Producers : write_commitTx(p)
    \/ \E n \in 1..kDataPoolByteSize : Consume(n)

Spec == Init /\ [][Next]_vars

\* the life of Producer objects: transactions opened, filled through
\* accessContiguousInTx(), committed or cancelled, and the objects destroyed
NextDtor ==
    \/ \E p \in Producers : startTx(p)
    \/ \E p \in Producers : cancelTx(p)
    \/ \E p \in Producers : commitTx(p)
    \/ \E p \in Producers : commitTx_clear(p)
    \/ \E p \in Producers : commitTx_end(p)
    \/ \E p \in Producers, z \in BOOLEAN : accessContiguousInTx(p, z)
    \/ \E p \in Producers, n \in 1..MaxSize, a \in BOOLEAN : access_readTail(p, n, a)
    \/ \E n \in 1..kDataPoolByteSize : Consume(n)
    \/ \E p \in Producers : Producer_dtor(p)

SpecDtor == Init /\ [][NextDtor]_vars

\* ------------------------------------------------------------ properties
\* p has acquired the flag and its commitTx()/cancelTx() has not released it
Holds(p) == inTx_[p] \/ pc[p] = "commit_end"

\* the last step was the return of op by p
Returned(c, op, p) == c.op = op /\ c.p = p

\* C1: mutual exclusion. In every reachable state at most one Producer of
\* the ring buffer has inTx_ = true, whatever the interleaving of the
\* producers' startTx/commitTx/cancelTx/write calls.
C1_MutualExclusion ==
    \A p, q \in Producers : inTx_[p] /\ inTx_[q] => p = q

\* a producer is Open and another one's startTx()/write() was just turned away
C1_Witness ==
    \E p \in Producers :
        /\ inTx_[p]
        /\ last.op \in {"startTx", "write"}
        /\ last.p # p
        /\ last.ret = -EAGAIN

\* C2: atomic visibility. head changes only in the incHead step of a
\* commitTx() on an Open producer, and then by exactly that producer's
\* tx_size_; no other step (startTx, accessContiguousInTx, writeInTx,
\* cancelTx, the consumer) changes it, and a call that returns an error has
\* left head where it was when the call began.
C2_AtomicVisibility ==
    [][ /\ head' # head =>
              \E p \in Producers :
                  /\ inTx_[p]
                  /\ pc[p] \in {"ready", "w_commit"}
                  /\ pc'[p] = "commit_clear"
                  /\ head' = head + tx_size_[p]
        /\ last'.ret < 0 => head' = head /\ last'.delta = 0
      ]_vars

\* a commitTx() has just returned 0 after advancing head over several bytes
C2_Witness ==
    /\ last.op = "commitTx"
    /\ last.ret = 0
    /\ last.delta > 1

\* C3: no partial record is readable. The pool bytes at the logical
\* positions [tail, head) are exactly the bytes of the committed
\* transactions, in commit order, less what the consumer consumed; what an
\* open or a cancelled transaction wrote is not among them.
C3_NoPartialRecord ==
    /\ Len(log) = head - tail
    /\ \A i \in 1..Len(log) :
           data[BitAnd(tail + i - 1, kDataModMask)] = log[i]

\* unread committed bytes lie in the pool while an open transaction has
\* copied bytes across the physical end of the pool
C3_Witness ==
    \E p \in Producers :
        /\ inTx_[p]
        /\ last.op = "writeInTx"
        /\ last.p = p
        /\ last.ret > 1
        /\ head > tail
        /\ BitAnd(head + tx_size_[p], kDataModMask) < last.ret
        /\ BitAnd(head + tx_size_[p], kDataModMask) > 0

\* C4: space conservation. 0 <= head - tail <= kDataPoolByteSize in every
\* reachable state, for all interleavings of the producers' operations and
\* the consumer's advances of tail.
C4_SpaceConservation ==
    /\ 0 <= head - tail
    /\ head - tail <= kDataPoolByteSize

\* a commitTx() has just filled the pool, after the consumer had advanced
C4_Witness ==
    /\ last.op = "commitTx"
    /\ last.ret = 0
    /\ last.delta > 0
    /\ tail > 0
    /\ head - tail = kDataPoolByteSize

\* C5: while a transaction is open (from the return of startTx() to the
\* call of commitTx()/cancelTx()), kDataPoolByteSize - (head - tail) -
\* tx_size_ >= 0, and the avail that accessContiguousInTx() is about to
\* compute from the head it read and the tail it reads is >= 0.
C5_AvailNonNegative ==
    \A p \in Producers :
        /\ inTx_[p] /\ pc[p] # "commit_clear" =>
               kDataPoolByteSize - (head - tail) - tx_size_[p] >= 0
        /\ pc[p] = "acc_tail" =>
               kDataPoolByteSize - (loc[p].h - tail) - tx_size_[p] >= 0

\* an open transaction has reserved all the space there is, after the
\* consumer advanced and more than one request
C5_Witness ==
    \E p \in Producers :
        /\ inTx_[p]
        /\ pc[p] = "ready"
        /\ tail > 0
        /\ head > tail
        /\ tx_size_[p] > 0
        /\ kDataPoolByteSize - (head - tail) - tx_size_[p] = 0

\* C6: lock discipline. The write flag is set exactly while some producer
\* holds it (Open, or in commitTx() before endWriteTransaction()); that
\* producer is the one whose startTx() set it; and endWriteTransaction() is
\* never run by a producer that does not hold the flag.
C6_LockDiscipline ==
    /\ in_write_tx <=> \E p \in Producers : Holds(p)
    /\ in_write_tx <=> owner \in Producers
    /\ \A p \in Producers : Holds(p) => owner = p
    /\ ~misuse

\* a commitTx()/cancelTx() has just released the flag it had acquired
C6_Witness ==
    /\ last.op \in {"commitTx", "cancelTx"}
    /\ last.ret = 0
    /\ ~in_write_tx

\* C7: write() is all-or-nothing. When write() returns, either it returns
\* its size and head is size beyond where it was at the call, or it returns
\* an error and head is where it was at the call.
C7_WriteAllOrNothing ==
    last.op = "write" =>
        \/ last.ret >= 0 /\ last.delta = last.ret
        \/ last.ret < 0 /\ last.delta = 0

\* a write() of several bytes has just succeeded
C7_Witness ==
    /\ last.op = "write"
    /\ last.ret > 1
    /\ last.delta = last.ret

\* C8: a failed write() leaves no open transaction. When write() returns an
\* error after its startTx() succeeded (an error other than EBUSY and
\* EAGAIN), the producer is Idle with tx_size_ = 0 and the write flag is
\* clear.
C8_FailedWriteIsIdle ==
    (last.op = "write" /\ last.ret < 0 /\ last.ret \notin {-EBUSY, -EAGAIN}) =>
        /\ ~inTx_[last.p]
        /\ tx_size_[last.p] = 0
        /\ pc[last.p] = "ready"
        /\ ~in_write_tx
        /\ owner \notin Producers

\* a write() has just failed for lack of space
C8_Witness ==
    /\ last.op = "write"
    /\ last.ret = -ENOSPC

\* C9: lock hand-over. When a commitTx()/cancelTx() returns 0 the write
\* flag is clear and no producer holds it; and a startTx() on an Idle
\* producer while no producer holds the flag returns 0 and opens its
\* transaction.
C9_HandOver ==
    [][ \A q \in Producers :
          /\ (last'.op \in {"commitTx", "cancelTx"} /\ last'.ret = 0) =>
                 (~in_write_tx' /\ \A p \in Producers : ~Holds(p)')
          /\ (Returned(last', "startTx", q) /\ ~inTx_[q]
                 /\ \A p \in Producers : ~Holds(p)) =>
                 (last'.ret = 0 /\ inTx_'[q] /\ in_write_tx')
      ]_vars

\* producer q has just opened a transaction with the flag that another
\* producer had held and released
C9_Witness ==
    \E q \in Producers :
        /\ Returned(last, "startTx", q)
        /\ last.ret = 0
        /\ inTx_[q]
        /\ last.prev \in Producers \ {q}

\* C10: no double transaction. startTx() on a producer that is Open returns
\* EBUSY and changes neither inTx_, tx_size_, head nor the write flag, which
\* this producer goes on holding.
C10_NoDoubleTx ==
    [][ \A p \in Producers :
          (Returned(last', "startTx", p) /\ inTx_[p]) =>
              /\ last'.ret = -EBUSY
              /\ UNCHANGED <<inTx_, tx_size_, head, tail, in_write_tx, owner,
                             misuse, data>>
              /\ in_write_tx /\ owner = p
      ]_vars

\* startTx() has just returned EBUSY on a producer with bytes reserved
C10_Witness ==
    /\ last.op = "startTx"
    /\ last.ret = -EBUSY
    /\ inTx_[last.p]
    /\ tx_size_[last.p] > 0

\* everything but the record of the last return and p's program counter
state == <<head, tail, in_write_tx, data, inTx_, tx_size_, loc, hist>>

\* C11: contention has no side effects. startTx() on an Idle producer q
\* while another producer holds the write flag returns EAGAIN and changes
\* nothing: q stays Idle with tx_size_ = 0, the flag stays with its holder,
\* whose inTx_ and tx_size_ are untouched, and head is unchanged.
C11_RetryNoSideEffect ==
    [][ \A q \in Producers :
          (Returned(last', "startTx", q) /\ pc[q] = "ready" /\ ~inTx_[q]
                 /\ in_write_tx /\ owner # q) =>
              /\ last'.ret = -EAGAIN
              /\ UNCHANGED state
              /\ ~inTx_'[q] /\ tx_size_'[q] = 0
              /\ in_write_tx' /\ owner' = owner
      ]_vars

\* startTx() has just returned EAGAIN to an Idle producer while another one
\* is Open with bytes reserved
C11_Witness ==
    \E a \in Producers :
        /\ last.op = "startTx"
        /\ last.ret = -EAGAIN
        /\ last.p # a
        /\ ~inTx_[last.p]
        /\ inTx_[a]
        /\ tx_size_[a] > 0
        /\ owner = a

\* C12: commitTx(), cancelTx(), accessContiguousInTx() and writeInTx() on
\* an Idle producer return EINVAL in their first step and change nothing,
\* whoever holds the write flag; the only call that takes an Idle producer
\* out of "ready" is a write() that opens its transaction.
C12_IdleInvalidState ==
    [][ \A p \in Producers :
          /\ (last'.p = p /\ pc[p] = "ready" /\ ~inTx_[p]
                 /\ last'.op \in {"commitTx", "cancelTx",
                                  "accessContiguousInTx", "writeInTx"}) =>
                 /\ last'.ret = -EINVAL
                 /\ last'.spans = <<>>
                 /\ UNCHANGED state
          /\ (pc[p] = "ready" /\ ~inTx_[p] /\ pc'[p] # "ready") =>
                 (pc'[p] = "w_writeInTx" /\ inTx_'[p])
      ]_vars

\* commitTx() or cancelTx() has just returned EINVAL to an Idle producer
\* while another producer is Open with bytes reserved
C12_Witness ==
    \E a \in Producers :
        /\ last.op \in {"commitTx", "cancelTx"}
        /\ last.ret = -EINVAL
        /\ last.p # a
        /\ inTx_[a]
        /\ tx_size_[a] > 0
        /\ in_write_tx

\* the size and allowPartial of p's request, once its readTail step is done
Asked(p) ==
    IF pc[p] = "ready"
    THEN [size |-> last.size, partial |-> last.partial]
    ELSE [size |-> loc[p].size, partial |-> loc[p].partial]

\* producer p takes the readTail step of its accessContiguousInTx()
ReadsTail(p) == pc[p] = "acc_tail" /\ pc'[p] # "acc_tail"

\* the avail that step computes
AvailAt(p) == kDataPoolByteSize - (loc[p].h - tail) - tx_size_[p]

\* C13: a strict request that fails is non-destructive. In an Open
\* transaction accessContiguousInTx/writeInTx with allowPartial = false and
\* size > avail returns ENOSPC and leaves tx_size_, inTx_, the write flag,
\* head and the pool as they were, so the transaction goes on as if the
\* call had not been made.
C13_StrictFailure ==
    [][ \A p \in Producers :
          (ReadsTail(p) /\ loc[p].op # "write"
                 /\ ~Asked(p)'.partial /\ Asked(p)'.size > AvailAt(p)) =>
              /\ pc'[p] = "ready"
              /\ last'.p = p
              /\ last'.ret = -ENOSPC
              /\ last'.spans = <<>>
              /\ inTx_'[p] /\ in_write_tx' /\ owner' = p
              /\ UNCHANGED <<head, tail, in_write_tx, data, inTx_, tx_size_, hist>>
              /\ loc' = [loc EXCEPT ![p] = NoLoc]
      ]_vars

\* a strict request has just failed in a transaction that holds bytes and
\* still has room for a smaller request
C13_Witness ==
    /\ last.op = "accessContiguousInTx"
    /\ last.ret = -ENOSPC
    /\ ~last.partial
    /\ inTx_[last.p]
    /\ tx_size_[last.p] > 0
    /\ kDataPoolByteSize - (head - tail) - tx_size_[last.p] > 0

\* the sum of the lengths of the spans sp
SpanSum(sp) ==
    IF Len(sp) = 0 THEN 0
    ELSE IF Len(sp) = 1 THEN sp[1].len
    ELSE sp[1].len + sp[2].len

\* the spans p's accessContiguousInTx() has handed out, once its readTail
\* step is done: to its caller, or to the writeInTx() that goes on to copy
Granted(p) == IF pc[p] = "ready" THEN last.spans ELSE loc[p].spans

\* C14: partial grant. In an Open transaction a request with
\* allowPartial = true never fails: it grants min(size, avail) bytes,
\* tx_size_ grows by exactly that, the span lengths sum to it, there are no
\* spans exactly when it is 0, and writeInTx() returns it after its copy.
C14_PartialGrant ==
    [][ \A p \in Producers :
          /\ (ReadsTail(p) /\ loc[p].op # "write" /\ Asked(p)'.partial) =>
                LET g == Min(Asked(p)'.size, AvailAt(p))
                IN  /\ g >= 0
                    /\ tx_size_'[p] = tx_size_[p] + g
                    /\ SpanSum(Granted(p)') = g
                    /\ (Len(Granted(p)') = 0) <=> (g = 0)
                    /\ inTx_'[p]
                    /\ IF pc'[p] = "ready"
                       THEN /\ last'.p = p
                            /\ last'.ret >= 0
                            /\ last'.op = "accessContiguousInTx" =>
                                   last'.ret = Len(last'.spans)
                            /\ last'.op = "writeInTx" => g = 0 /\ last'.ret = 0
                       ELSE pc'[p] = "copy" /\ loc[p].op = "writeInTx"
          /\ (pc[p] = "copy" /\ pc'[p] = "ready") =>
                /\ last'.op = "writeInTx"
                /\ last'.ret = SpanSum(loc[p].spans)
                /\ last'.ret > 0
                /\ tx_size_'[p] = tx_size_[p]
      ]_vars

\* writeInTx() with allowPartial = true has just returned fewer bytes than
\* it was asked for
C14_Witness ==
    /\ last.op = "writeInTx"
    /\ last.partial
    /\ 0 < last.ret
    /\ last.ret < last.size
    /\ tx_size_[last.p] >= last.ret

\* the spans of a region of s > 0 bytes that starts at physical offset start
Region(start, s) ==
    IF start + s <= kDataPoolByteSize
    THEN <<[off |-> start, len |-> s]>>
    ELSE <<[off |-> start, len |-> kDataPoolByteSize - start],
           [off |-> 0, len |-> BitAnd(start + s, kDataModMask)]>>

\* C15: wrap correctness. A grant of s bytes, 0 < s <= capacity, starting at
\* start = (head + tx_size_) & mask is one span [start, start + s) when
\* start + s <= capacity and otherwise the two spans [start, capacity) and
\* [0, (start + s) & mask); every span has a non-zero length and lies in the
\* pool, and the lengths sum to s.
C15_WrapCorrect ==
    [][ \A p \in Producers :
          (ReadsTail(p) /\ tx_size_'[p] # tx_size_[p]) =>
              LET s == tx_size_'[p] - tx_size_[p]
                  start == BitAnd(head + tx_size_[p], kDataModMask)
                  sp == Granted(p)'
              IN  /\ 0 < s /\ s <= kDataPoolByteSize
                  /\ sp = Region(start, s)
                  /\ \A i \in 1..Len(sp) :
                        /\ sp[i].len > 0
                        /\ sp[i].off >= 0
                        /\ sp[i].off + sp[i].len <= kDataPoolByteSize
                  /\ SpanSum(sp) = s
      ]_vars

\* a grant of the whole pool that does not start at offset 0: two spans,
\* start = end
C15_Witness ==
    /\ last.op = "accessContiguousInTx"
    /\ last.ret = 2
    /\ SpanSum(last.spans) = kDataPoolByteSize
    /\ last.spans[1].off > 0
    /\ last.spans[2].len = last.spans[1].off

\* the physical bytes of the spans sp
Cells(sp) ==
    UNION {sp[i].off .. (sp[i].off + sp[i].len - 1) : i \in 1..Len(sp)}

\* the physical bytes of the unread region [tail, head)
Unread == {BitAnd(j, kDataModMask) : j \in tail..(head - 1)}

\* the physical bytes p's open transaction has reserved
Reserved(p) ==
    {BitAnd(head + i, kDataModMask) : i \in 0..(tx_size_[p] - 1)}

\* C16: the consumer cannot cause an overrun. However its advances of tail
\* interleave with an open transaction, the avail a producer is about to
\* compute from the head it read is no more than the free space there is,
\* and neither the bytes the transaction has reserved nor a span handed out
\* covers a physical byte of the unread region [tail, head).
C16_NoOverrun ==
    \A p \in Producers :
        /\ pc[p] = "acc_tail" =>
              /\ loc[p].h - tail <= kDataPoolByteSize
              /\ kDataPoolByteSize - (loc[p].h - tail) - tx_size_[p]
                    <= kDataPoolByteSize - (head - tail) - tx_size_[p]
        /\ (inTx_[p] /\ pc[p] # "commit_clear") =>
              /\ Reserved(p) \cap Unread = {}
              /\ Cardinality(Reserved(p)) = tx_size_[p]
        /\ pc[p] = "copy" =>
              /\ Cells(loc[p].spans) \cap Unread = {}
              /\ Cells(loc[p].spans) \subseteq Reserved(p)
        /\ (last.p = p /\ last.op = "accessContiguousInTx" /\ last.ret > 0) =>
              /\ Cells(last.spans) \cap Unread = {}
              /\ Cells(last.spans) \subseteq Reserved(p)

\* the consumer has moved tail after a producer read head and before it
\* reads tail, with unread bytes left in the pool
C16_Witness ==
    \E p \in Producers :
        /\ pc[p] = "acc_tail"
        /\ last.op = "Consume"
        /\ tail > 0
        /\ tail < head
        /\ tx_size_[p] > 0

\* C17: destroying a producer whose transaction is open is a fatal error:
\* the destructor's assertion ends the process and the write flag is neither
\* released nor handed on, and no producer is ever destroyed while Open.
\* Destroying an Idle producer succeeds and changes neither head nor the
\* write flag.
C17_DestroyOpenIsFatal ==
    [][ \A p \in Producers :
          /\ (last'.p = p /\ last'.op \in {"abort", "~Producer"}) =>
                /\ pc[p] = "ready"
                /\ IF inTx_[p]
                   THEN /\ last'.op = "abort"
                        /\ pc'[p] = "aborted"
                        /\ inTx_'[p]
                        /\ in_write_tx' /\ owner' = p
                   ELSE /\ last'.op = "~Producer"
                        /\ pc'[p] = "destroyed"
                        /\ \A q \in Producers \ {p} : pc'[q] = pc[q]
                /\ UNCHANGED state
          /\ pc'[p] = "destroyed" => ~inTx_'[p] /\ owner' # p
      ]_vars

\* one producer has been destroyed while Idle and another one's destructor
\* has aborted on its open transaction, which held reserved bytes
C17_Witness ==
    \E p, q \in Producers :
        /\ pc[p] = "destroyed"
        /\ pc[q] = "aborted"
        /\ last.op = "abort"
        /\ last.p = q
        /\ inTx_[q]
        /\ tx_size_[q] > 0
        /\ in_write_tx

\* C18: every Idle producer has tx_size_ = 0, so a transaction always opens
\* with tx_size_ = 0 (the TP_DCHECK_EQ in startTx() cannot fail), however
\* the transactions before it ended, and the first span of a transaction
\* starts at physical offset head & mask, also where a cancelled
\* transaction had reserved and written bytes.
C18_IdleTxSizeZero ==
    \A p \in Producers :
        /\ ~inTx_[p] => tx_size_[p] = 0
        /\ (Returned(last, "startTx", p) /\ last.ret = 0) =>
               inTx_[p] /\ tx_size_[p] = 0
        /\ pc[p] = "w_writeInTx" => inTx_[p] /\ tx_size_[p] = 0
        /\ (Returned(last, "accessContiguousInTx", p) /\ last.ret > 0
                /\ tx_size_[p] = SpanSum(last.spans)) =>
               last.spans[1].off = BitAnd(head, kDataModMask)
        /\ (pc[p] = "copy" /\ tx_size_[p] = SpanSum(loc[p].spans)) =>
               loc[p].spans[1].off = BitAnd(head, kDataModMask)

\* the first span of a transaction lies on a byte that a transaction
\* cancelled earlier wrote: head has not wrapped, so the 1 at head was
\* never committed
C18_Witness ==
    /\ last.op = "accessContiguousInTx"
    /\ last.ret > 0
    /\ tx_size_[last.p] = SpanSum(last.spans)
    /\ head < kDataPoolByteSize
    /\ data[head] = 1
    /\ last.spans[1].off = head

\* C19: the regions granted in one transaction are concatenated in call
\* order. Each grant starts at the logical position head + tx_size_ where
\* the one before ended, its bytes are none of those granted before in the
\* transaction, and commitTx() advances head by the total length granted.
C19_GrantsConcatenated ==
    [][ \A p \in Producers :
          /\ (ReadsTail(p) /\ tx_size_'[p] # tx_size_[p]) =>
                LET sp == Granted(p)'
                IN  /\ sp[1].off = BitAnd(head + tx_size_[p], kDataModMask)
                    /\ Cells(sp) \cap Reserved(p) = {}
                    /\ Reserved(p)' = Reserved(p) \cup Cells(sp)
                    /\ Cells(sp) =
                          {BitAnd(head + i, kDataModMask) :
                              i \in tx_size_[p]..(tx_size_'[p] - 1)}
                    /\ head' = head
          /\ (pc[p] # "commit_clear" /\ pc'[p] = "commit_clear") =>
                /\ head' - head = tx_size_[p]
                /\ Len(staged[p]) = tx_size_[p]
                /\ log' = log \o staged[p]
      ]_vars

\* a second grant in a transaction, which wraps around the end of the pool
C19_Witness ==
    /\ last.op = "accessContiguousInTx"
    /\ last.ret = 2
    /\ tx_size_[last.p] > SpanSum(last.spans)
    /\ last.spans[1].off # BitAnd(head, kDataModMask)

\* C20: publication precedes release. commitTx() advances head by tx_size_
\* in a step of its own while the flag is held, and releases the flag in a
\* later step that leaves head alone; whatever other producers do in
\* between, a producer that acquires the flag finds no other producer with
\* unpublished bytes or inside commitTx(), the head it then reads is the
\* head, and no two producers have bytes reserved at the same time.
C20_PublishBeforeRelease ==
    [][ \A p \in Producers :
          /\ head' # head =>
                \E q \in Producers :
                    /\ in_write_tx /\ owner = q
                    /\ in_write_tx' /\ owner' = q
                    /\ pc'[q] = "commit_clear"
                    /\ head' = head + tx_size_[q]
          /\ (pc[p] = "commit_end" /\ pc'[p] = "ready") =>
                /\ in_write_tx /\ owner = p
                /\ ~in_write_tx'
                /\ head' = head
                /\ tx_size_[p] = 0
                /\ last'.delta = head - loc[p].head0
          /\ (in_write_tx' /\ owner' = p /\ ~(in_write_tx /\ owner = p)) =>
                /\ ~in_write_tx
                /\ \A q \in Producers \ {p} :
                      /\ pc[q] \notin {"commit_clear", "commit_end"}
                      /\ tx_size_[q] = 0
          /\ pc'[p] = "acc_tail" => loc'[p].h = head'
          /\ \A q \in Producers \ {p} : tx_size_'[p] = 0 \/ tx_size_'[q] = 0
      ]_vars

\* a producer is inside commitTx(), head advanced and the flag not yet
\* released, and another producer's startTx() has just been turned away
C20_Witness ==
    \E p \in Producers :
        /\ pc[p] \in {"commit_clear", "commit_end"}
        /\ loc[p].op = "commitTx"
        /\ head > loc[p].head0
        /\ last.op = "startTx"
        /\ last.ret = -EAGAIN
        /\ last.p # p

====
